---- MODULE Spec2Model ----
(***************************************************************************)
(* Model of konrad's cloud handlers (src/konrad/cloud.py): the conversions *)
(* of user input into tagged per-level and per-level-per-band fields, the  *)
(* cloud classes with their constructors, their addition operators and    *)
(* their update_cloud_profile methods, and the CloudEnsemble wrapper.      *)
(*                                                                         *)
(* Floating point numbers are modelled as exact extended rationals <<n,d>> *)
(* in lowest terms: d > 0 is a finite value, <<1,0>> and <<-1,0>> are the  *)
(* infinities and <<0,0>> is not-a-number.  The arithmetic of the fields   *)
(* kept in the state is exact: a value of the state and the double the     *)
(* code computes agree within a few units in the last place, not bit for   *)
(* bit, and a statement that two such values are equal is made within the  *)
(* tolerance of isclose.  The interpolation of shift_property is modelled  *)
(* a second time in IEEE-754 doubles (linear_double), every operation      *)
(* rounded as the code rounds it, and the doubles a call of shift_property *)
(* stores are part of its record.                                          *)
(* Python exceptions are modelled as results                               *)
(* [error |-> <exception class>, value |-> ...].                           *)
(***************************************************************************)
EXTENDS Integers, Sequences, FiniteSets, TLC

\* atmosphere, convection: the collaborators handed to update_cloud_profile
\* clouds:     the cloud objects constructed so far (the heap)
\* history:    per cloud, the anchor of the most recent call (the construction
\*             or an update) that supplied one, and whether an update did
\* ensemble:   the CloudEnsemble objects constructed so far (at most one)
\* outcome:    the last operation, its arguments and its result or exception
VARIABLES atmosphere, convection, clouds, history, ensemble, outcome

vars == <<atmosphere, convection, clouds, history, ensemble, outcome>>

(***************************************************************************)
(* Bounds of the model.                                                    *)
(***************************************************************************)
MaxLevels == 3
MaxClouds == 2

\* the most calls of the helper methods on one cloud
MaxCalls == 2

(***************************************************************************)
(* Floating point arithmetic (numpy semantics for nan and inf).            *)
(***************************************************************************)
Abs(i) == IF i < 0 THEN -i ELSE i

Sign(i) == IF i < 0 THEN -1 ELSE IF i > 0 THEN 1 ELSE 0

RECURSIVE GCD(_, _)
GCD(a, b) == IF b = 0 THEN a ELSE GCD(b, a % b)

Rat(n, d) ==
    IF d = 0 THEN <<Sign(n), 0>>
    ELSE LET g == GCD(Abs(n), Abs(d))
             s == Sign(d)
         IN  <<(s * n) \div g, (s * d) \div g>>

Num(i) == <<i, 1>>

NaN == <<0, 0>>

IsNaN(a) == a = NaN

\* the sum over the least common denominator
FAdd(a, b) ==
    IF a[2] = 0 /\ b[2] = 0 THEN (IF a[1] = b[1] THEN a ELSE NaN)
    ELSE IF a[2] = 0 THEN a
    ELSE IF b[2] = 0 THEN b
    ELSE LET g == GCD(a[2], b[2])
         IN  Rat(a[1] * (b[2] \div g) + b[1] * (a[2] \div g), (a[2] \div g) * b[2])

FNeg(a) == <<-a[1], a[2]>>

FSub(a, b) == FAdd(a, FNeg(b))

\* the product, common factors cancelled before multiplying
FMul(a, b) ==
    IF a[2] = 0 \/ b[2] = 0 THEN Rat(Sign(a[1]) * Sign(b[1]), 0)
    ELSE LET g == GCD(Abs(a[1]), b[2])
             h == GCD(Abs(b[1]), a[2])
         IN  Rat((a[1] \div g) * (b[1] \div h), (a[2] \div h) * (b[2] \div g))

FRecip(b) ==
    IF b[2] = 0 THEN (IF b[1] = 0 THEN NaN ELSE Num(0))
    ELSE Rat(b[2], b[1])

FDiv(a, b) == FMul(a, FRecip(b))

FLess(a, b) ==
    IF IsNaN(a) \/ IsNaN(b) THEN FALSE
    ELSE IF a[2] = 0 \/ b[2] = 0 THEN a[1] * b[2] < b[1] * a[2] \/ (a[2] = b[2] /\ a[1] < b[1])
    ELSE LET g == GCD(a[2], b[2])
         IN  a[1] * (b[2] \div g) < b[1] * (a[2] \div g)

FLeq(a, b) == ~IsNaN(a) /\ ~IsNaN(b) /\ ~FLess(b, a)

FAbs(a) == <<Abs(a[1]), a[2]>>

\* np.maximum / np.minimum: a nan operand gives nan
FMax(a, b) == IF IsNaN(a) \/ IsNaN(b) THEN NaN ELSE IF FLess(a, b) THEN b ELSE a

FMin(a, b) == IF IsNaN(a) \/ IsNaN(b) THEN NaN ELSE IF FLess(b, a) THEN b ELSE a

\* ndarray.clip(min=lo, max=hi)
clip(a, lo, hi) == FMin(FMax(a, lo), hi)

(***************************************************************************)
(* IEEE-754 doubles.  A double is a sign s, a mantissa m of 53 bits and an *)
(* exponent e, and stands for s * m * 2^e; zero has the sign 0 and no      *)
(* mantissa.  A mantissa is a whole number beyond the 32 bits of TLC,      *)
(* written in base 2^12 with the least significant digit first and no zero *)
(* digit at the high end.  Every operation rounds its exact result to the  *)
(* nearest double, a tie to the even mantissa.  Overflow, subnormal        *)
(* numbers and the sign of zero are left out: the fields of a cloud are    *)
(* far from the ends of the exponent range.                                *)
(***************************************************************************)
Digit == 2^12

\* the whole number n >= 0 in digits
RECURSIVE big(_)
big(n) == IF n = 0 THEN <<>> ELSE <<n % Digit>> \o big(n \div Digit)

\* a without the zero digits at its high end
RECURSIVE big_strip(_)
big_strip(a) ==
    IF a # <<>> /\ a[Len(a)] = 0 THEN big_strip(SubSeq(a, 1, Len(a) - 1)) ELSE a

big_digit(a, k) == IF k <= Len(a) THEN a[k] ELSE 0

\* the digits of a + b from the digit k on, with the carry of the digits below
RECURSIVE big_add_from(_, _, _, _)
big_add_from(a, b, k, carry) ==
    IF k > Len(a) /\ k > Len(b) THEN big(carry)
    ELSE <<(big_digit(a, k) + big_digit(b, k) + carry) % Digit>>
         \o big_add_from(a, b, k + 1,
                         (big_digit(a, k) + big_digit(b, k) + carry) \div Digit)

big_add(a, b) == big_add_from(a, b, 1, 0)

\* the digits of a - b from the digit k on, for a >= b
RECURSIVE big_sub_from(_, _, _, _)
big_sub_from(a, b, k, borrow) ==
    IF k > Len(a) THEN <<>>
    ELSE <<(big_digit(a, k) - big_digit(b, k) - borrow + Digit) % Digit>>
         \o big_sub_from(a, b, k + 1,
                         IF big_digit(a, k) - big_digit(b, k) - borrow < 0 THEN 1 ELSE 0)

big_sub(a, b) == big_strip(big_sub_from(a, b, 1, 0))

\* a < b, compared from the high end
RECURSIVE big_less_from(_, _, _)
big_less_from(a, b, k) ==
    IF k = 0 THEN FALSE
    ELSE IF a[k] # b[k] THEN a[k] < b[k]
    ELSE big_less_from(a, b, k - 1)

big_less(a, b) ==
    IF Len(a) # Len(b) THEN Len(a) < Len(b) ELSE big_less_from(a, b, Len(a))

\* a * c for a whole number 0 <= c < 2^18
RECURSIVE big_mul_from(_, _, _, _)
big_mul_from(a, c, k, carry) ==
    IF k > Len(a) THEN big(carry)
    ELSE <<(a[k] * c + carry) % Digit>>
         \o big_mul_from(a, c, k + 1, (a[k] * c + carry) \div Digit)

big_mul(a, c) == big_strip(big_mul_from(a, c, 1, 0))

\* the quotient q and the remainder r of a by a whole number 0 < b < 2^18,
\* by long division from the high end
RECURSIVE big_div_from(_, _, _, _, _)
big_div_from(a, b, k, rem, q) ==
    IF k = 0 THEN [q |-> big_strip(q), r |-> rem]
    ELSE big_div_from(a, b, k - 1, (rem * Digit + a[k]) % b,
                      <<(rem * Digit + a[k]) \div b>> \o q)

big_div(a, b) == big_div_from(a, b, Len(a), 0, <<>>)

\* the number of bits of n
RECURSIVE bits(_)
bits(n) == IF n = 0 THEN 0 ELSE 1 + bits(n \div 2)

big_bits(a) == IF a = <<>> THEN 0 ELSE 12 * (Len(a) - 1) + bits(a[Len(a)])

\* a * 2^s
big_shl(a, s) ==
    IF a = <<>> THEN <<>> ELSE [i \in 1..(s \div 12) |-> 0] \o big_mul(a, 2^(s % 12))

shr_result(d, low) ==
    [q |-> d.q, lost |-> d.r # 0 \/ \E i \in 1..Len(low) : low[i] # 0]

\* a \div 2^s, and whether a bit that was dropped is set
big_shr(a, s) ==
    shr_result(big_div(SubSeq(a, s \div 12 + 1, Len(a)), 2^(s % 12)),
               SubSeq(a, 1, s \div 12))

double(s, m, e) == [nan |-> FALSE, s |-> s, m |-> m, e |-> e]

double_zero == double(0, <<>>, 0)

double_nan == [nan |-> TRUE, s |-> 0, m |-> <<>>, e |-> 0]

\* the 54 leading bits k of a value, rounded to 53 bits: up if the last bit is
\* set and a lower bit is set too, or the mantissa would be odd
rounded(k, lost) ==
    IF k[1] % 2 = 1 /\ (lost \/ (k[1] \div 2) % 2 = 1)
    THEN big_add(big_div(k, 2).q, <<1>>)
    ELSE big_div(k, 2).q

\* a mantissa that rounding took to 2^53 is 2^52 with the next exponent
normal(s, m, e) ==
    IF big_bits(m) = 54 THEN double(s, big_div(m, 2).q, e + 1) ELSE double(s, m, e)

cut(s, r, lost, e) == normal(s, rounded(r.q, lost \/ r.lost), e)

\* the double nearest to s * (v + t) * 2^e, where t = 0 unless `lost`, and then
\* 0 < t < 1 and v has more than 54 bits
round_double(s, v, lost, e) ==
    IF v = <<>> THEN double_zero
    ELSE IF big_bits(v) <= 53
    THEN double(s, big_shl(v, 53 - big_bits(v)), e - (53 - big_bits(v)))
    ELSE cut(s, big_shr(v, big_bits(v) - 54), lost, e + big_bits(v) - 53)

round_quotient(s, d, e) == round_double(s, d.q, d.r # 0, e)

\* the double a float of the code is, for the value q of the model: the double
\* nearest to q, which is what the one division or the literal that produced
\* the float gives (denominators below 2^18)
double_of(q) ==
    IF IsNaN(q) THEN double_nan
    ELSE round_quotient(Sign(q[1]), big_div(big_shl(big(Abs(q[1])), 72), q[2]), -72)

double_neg(a) == [a EXCEPT !.s = -@]

Lower(a, b) == IF a < b THEN a ELSE b

\* the sum of sa * va * 2^e and sb * vb * 2^e, rounded
signed_sum(sa, va, sb, vb, e) ==
    IF sa = sb THEN round_double(sa, big_add(va, vb), FALSE, e)
    ELSE IF va = vb THEN double_zero
    ELSE IF big_less(va, vb) THEN round_double(sb, big_sub(vb, va), FALSE, e)
    ELSE round_double(sa, big_sub(va, vb), FALSE, e)

\* a + b for doubles a and b
double_add(a, b) ==
    IF a.nan \/ b.nan THEN double_nan
    ELSE IF a.s = 0 THEN b
    ELSE IF b.s = 0 THEN a
    ELSE signed_sum(a.s, big_shl(a.m, a.e - Lower(a.e, b.e)),
                    b.s, big_shl(b.m, b.e - Lower(a.e, b.e)), Lower(a.e, b.e))

\* a * c for a double a and a double c that is a whole number, |c| < 2^18,
\* or not-a-number
double_mul(a, c) ==
    IF a.nan \/ IsNaN(c) THEN double_nan
    ELSE round_double(a.s * Sign(c[1]), big_mul(a.m, Abs(c[1])), FALSE, a.e)

\* a / b for a double a and a double b that is a whole number, 0 < |b| < 2^18,
\* or not-a-number
double_div(a, b) ==
    IF a.nan \/ IsNaN(b) THEN double_nan
    ELSE round_quotient(a.s * Sign(b[1]),
                        big_div(big_shl(a.m, 30), Abs(b[1])), a.e - 30)

(***************************************************************************)
(* Python values handed to the field conversions.  A value has a type, a   *)
(* shape and its values; a DataArray also has dims and the units attr.     *)
(***************************************************************************)
PyValue(t, shape, values, dims, units) ==
    [type |-> t, shape |-> shape, values |-> values, dims |-> dims, units |-> units]

None == PyValue("NoneType", <<>>, <<>>, <<>>, "")

PyFloat(v) == PyValue("float", <<>>, v, <<>>, "")

\* an instance of a type that is neither int, float, ndarray nor DataArray
PyOther(t) == PyValue(t, <<>>, <<>>, <<>>, "")

ShapeOf(values, ndim) ==
    IF ndim = 1 THEN <<Len(values)>>
    ELSE <<Len(values), IF Len(values) = 0 THEN 0 ELSE Len(values[1])>>

ndarray(values, ndim) == PyValue("ndarray", ShapeOf(values, ndim), values, <<>>, "")

DataArray(values, dims, units) ==
    PyValue("DataArray", ShapeOf(values, Len(dims)), values, dims, units)

Ok(v) == [error |-> "none", value |-> v]

Raise(e) == [error |-> e, value |-> None]

\* the exception raised by the first failing call of a sequence of calls
FirstError(results) ==
    IF \A i \in 1..Len(results) : results[i].error = "none" THEN "none"
    ELSE LET k == CHOOSE i \in 1..Len(results) :
                    /\ results[i].error # "none"
                    /\ \A j \in 1..(i - 1) : results[j].error = "none"
         IN  results[k].error

\* values * np.ones(numlevels)
ones(numlevels, values) == [i \in 1..numlevels |-> values]

\* values * np.ones((numlevels, numbands))
ones2(numlevels, numbands, values) ==
    [i \in 1..numlevels |-> [b \in 1..numbands |-> values]]

\* np.repeat(values[:, np.newaxis], numbands, axis=1)
repeat(values, numbands) ==
    [i \in 1..Len(values) |-> [b \in 1..numbands |-> values[i]]]

isinstance_int_float(values) == values.type \in {"int", "float"}

get_p_data_array(values, units, numlevels) ==
    IF values.type = "DataArray" THEN Ok(values)
    ELSE IF values.type = "ndarray" THEN
        IF values.shape = <<numlevels>>
        THEN Ok(DataArray(values.values, <<"mid_levels">>, units))
        ELSE Raise("ValueError")
    ELSE IF isinstance_int_float(values) THEN
        Ok(DataArray(ones(numlevels, values.values), <<"mid_levels">>, units))
    ELSE Raise("TypeError")

num_longwave_bands == 16

num_shortwave_bands == 14

get_waveband_data_array(values, units, numlevels, sw) ==
    IF values.type = "DataArray" THEN Ok(values)
    ELSE LET dims_bands == IF sw THEN "num_shortwave_bands" ELSE "num_longwave_bands"
             numbands == IF sw THEN 14 ELSE 16
         IN  IF isinstance_int_float(values) THEN
                 Ok(DataArray(ones2(numlevels, numbands, values.values),
                              <<"mid_levels", dims_bands>>, units))
             ELSE IF values.type = "ndarray" /\ values.shape = <<numlevels>> THEN
                 Ok(DataArray(repeat(values.values, numbands),
                              <<"mid_levels", dims_bands>>, units))
             ELSE IF values.type = "ndarray" /\ values.shape = <<numlevels, numbands>> THEN
                 Ok(DataArray(values.values, <<"mid_levels", dims_bands>>, units))
             ELSE Raise("TypeError")

\* the keyword parameters of get_waveband_data_array and their defaults
waveband_defaults == [units |-> "dimensionless", numlevels |-> 200, sw |-> TRUE]

\* the call get_waveband_data_array(values, **kwargs): binding a keyword the
\* function does not declare is a TypeError
call_get_waveband_data_array(values, kwargs) ==
    IF ~(DOMAIN kwargs \subseteq DOMAIN waveband_defaults) THEN Raise("TypeError")
    ELSE LET arg(name) == IF name \in DOMAIN kwargs THEN kwargs[name]
                          ELSE waveband_defaults[name]
         IN  get_waveband_data_array(values, arg("units"), arg("numlevels"), arg("sw"))

\* the keyword parameters of get_p_data_array and their defaults
p_data_array_defaults == [units |-> "kg m^-2", numlevels |-> 200]

\* the call get_p_data_array(values, **kwargs)
call_get_p_data_array(values, kwargs) ==
    IF ~(DOMAIN kwargs \subseteq DOMAIN p_data_array_defaults) THEN Raise("TypeError")
    ELSE LET arg(name) == IF name \in DOMAIN kwargs THEN kwargs[name]
                          ELSE p_data_array_defaults[name]
         IN  get_p_data_array(values, arg("units"), arg("numlevels"))

\* a call without keyword arguments
NoKwargs == [name \in {} |-> None]

(***************************************************************************)
(* konrad.utils.dz_from_z: the layer thickness derived from the altitude   *)
(* grid, the lowest layer reaching down to the ground.                     *)
(***************************************************************************)
dz_from_z(z) == [i \in 1..Len(z) |-> IF i = 1 THEN z[1] ELSE FSub(z[i], z[i - 1])]

(***************************************************************************)
(* scipy.interpolate.interp1d(x, y, axis=0, fill_value='extrapolate'):     *)
(* linear interpolation, the end segments extended beyond the samples.     *)
(* y holds one value per sample (ndim 1) or one row of bands (ndim 2).     *)
(***************************************************************************)
Reverse(s) == [i \in 1..Len(s) |-> s[Len(s) + 1 - i]]

IsAscending(x) == \A i \in 1..(Len(x) - 1) : FLeq(x[i], x[i + 1])

\* interp1d sorts its samples by x (assume_sorted=False)
interp1d(x, y, ndim) ==
    IF IsAscending(x) THEN [x |-> x, y |-> y, ndim |-> ndim]
    ELSE [x |-> Reverse(x), y |-> Reverse(y), ndim |-> ndim]

\* np.searchsorted(x, x_new): nan sorts behind every number
searchsorted(x, x_new) ==
    IF IsNaN(x_new) THEN Len(x)
    ELSE Cardinality({i \in 1..Len(x) : FLess(x[i], x_new)})

\* x_new_indices.clip(1, len(x) - 1)
clip_index(found, n) == IF found < 1 THEN 1 ELSE IF found > n THEN n ELSE found

\* slope * (x_new - x_lo) + y_lo with slope = (y_hi - y_lo) / (x_hi - x_lo),
\* as the real number: at x_new = x_hi the value is y_hi itself.  The double
\* the code computes is linear_double
linear(x_lo, x_hi, y_lo, y_hi, x_new) ==
    FAdd(FMul(FDiv(FSub(y_hi, y_lo), FSub(x_hi, x_lo)), FSub(x_new, x_lo)), y_lo)

\* the line through the samples lo and lo + 1, at x_new
linear_at(f, lo, x_new) ==
    [b \in 1..Len(f.y[lo]) |->
        linear(f.x[lo], f.x[lo + 1], f.y[lo][b], f.y[lo + 1][b], x_new)]

\* interp1d._call_linear for one point x_new
call_linear(f, x_new) ==
    linear_at(f, clip_index(searchsorted(f.x, x_new), Len(f.x) - 1), x_new)

\* the samples of a 1-d property as rows of one value
rows(y) == [i \in 1..Len(y) |-> <<y[i]>>]

\* interpolation_f(x_new) for an array x_new
call_interp1d(f, x_new) ==
    IF f.ndim = 1
    THEN [i \in 1..Len(x_new) |-> call_linear([f EXCEPT !.y = rows(@)], x_new[i])[1]]
    ELSE [i \in 1..Len(x_new) |-> call_linear(f, x_new[i])]

\* z - level for an array z
shifted(z, level) == [i \in 1..Len(z) |-> FSub(z[i], level)]

\* a variant of linear_double that measures x_new from 0, not from x_lo
linear_double_from_zero(x_lo, x_hi, y_lo, y_hi, x_new) ==
    double_add(double_mul(double_div(double_add(double_of(y_hi),
                                                double_neg(double_of(y_lo))),
                                     FSub(x_hi, x_lo)),
                          x_new),
               double_of(y_lo))

\* slope * (x_new - x_lo) + y_lo with slope = (y_hi - y_lo) / (x_hi - x_lo) in
\* doubles: the difference of the samples, the quotient, the product and the
\* sum are each rounded.  The samples are the doubles nearest to y_lo and
\* y_hi; the differences of the levels are whole numbers and exact
linear_double(x_lo, x_hi, y_lo, y_hi, x_new) ==
    double_add(double_mul(double_div(double_add(double_of(y_hi),
                                                double_neg(double_of(y_lo))),
                                     FSub(x_hi, x_lo)),
                          FSub(x_new, x_lo)),
               double_of(y_lo))

\* interpolation_f(x_new) for an array x_new in doubles, one row of bands per
\* point: _call_linear picks the samples lo and lo + 1 around each point
call_interp1d_double(f, x_new) ==
    [i \in 1..Len(x_new) |->
        LET lo == clip_index(searchsorted(f.x, x_new[i]), Len(f.x) - 1)
        IN  [b \in 1..Len(f.y[lo]) |->
                linear_double(f.x[lo], f.x[lo + 1], f.y[lo][b], f.y[lo + 1][b],
                              x_new[i])]]

(***************************************************************************)
(* class Cloud.  An object is a record of its attributes; `attributes` is  *)
(* the set of the private attributes that have been assigned, and reading  *)
(* one that has not been assigned raises AttributeError.                   *)
(***************************************************************************)
\* the defaults of the parameters of Cloud.__init__
Cloud_defaults ==
    [cloud_fraction |-> PyFloat(Num(0)),
     mass_ice |-> PyFloat(Num(0)),
     mass_water |-> PyFloat(Num(0)),
     ice_particle_size |-> PyFloat(Num(20)),
     droplet_radius |-> PyFloat(Num(10)),
     lw_optical_thickness |-> PyFloat(Num(0)),
     sw_optical_thickness |-> PyFloat(Num(0)),
     forward_scattering_fraction |-> PyFloat(Num(0)),
     asymmetry_parameter |-> PyFloat(Rat(85, 100)),
     single_scattering_albedo |-> PyFloat(Rat(9, 10))]

\* the object whose fields are the results of the conversions, in the order of
\* the assignments of Cloud.__init__
Cloud_object(class, z, fields) ==
    IF FirstError(fields) # "none" THEN Raise(FirstError(fields))
    ELSE Ok([class |-> class,
             z |-> z,
             mass_content_of_cloud_liquid_water_in_atmosphere_layer |-> fields[1].value,
             mass_content_of_cloud_ice_in_atmosphere_layer |-> fields[2].value,
             cloud_area_fraction_in_atmosphere_layer |-> fields[3].value,
             cloud_ice_particle_size |-> fields[4].value,
             cloud_water_droplet_radius |-> fields[5].value,
             longwave_optical_thickness_due_to_cloud |-> fields[6].value,
             cloud_forward_scattering_fraction |-> fields[7].value,
             cloud_asymmetry_parameter |-> fields[8].value,
             shortwave_optical_thickness_due_to_cloud |-> fields[9].value,
             single_scattering_albedo_due_to_cloud |-> fields[10].value,
             attributes |-> {},
             _norm_level |-> None,
             _f |-> None,
             _interpolation_sw |-> None,
             _interpolation_lw |-> None,
             _longwave_optical_thickness_per_meter |-> None,
             _shortwave_optical_thickness_per_meter |-> None,
             _ice_density |-> None,
             _water_density |-> None])

Cloud__init__(class, z, kwargs) ==
    LET arg(name) == IF name \in DOMAIN kwargs THEN kwargs[name] ELSE Cloud_defaults[name]
    IN  Cloud_object(class, z,
            <<get_p_data_array(arg("mass_water"), "kg m^-2", Len(z)),
              get_p_data_array(arg("mass_ice"), "kg m^-2", Len(z)),
              get_p_data_array(arg("cloud_fraction"), "dimensionless", Len(z)),
              get_p_data_array(arg("ice_particle_size"), "micrometers", Len(z)),
              get_p_data_array(arg("droplet_radius"), "micrometers", Len(z)),
              get_waveband_data_array(arg("lw_optical_thickness"), "dimensionless",
                                      Len(z), FALSE),
              get_waveband_data_array(arg("forward_scattering_fraction"), "dimensionless",
                                      Len(z), TRUE),
              get_waveband_data_array(arg("asymmetry_parameter"), "dimensionless",
                                      Len(z), TRUE),
              get_waveband_data_array(arg("sw_optical_thickness"), "dimensionless",
                                      Len(z), TRUE),
              get_waveband_data_array(arg("single_scattering_albedo"), "dimensionless",
                                      Len(z), TRUE)>>)

\* self.<name> = value for a private attribute
SetAttr(self, name, value) ==
    [[self EXCEPT ![name] = value] EXCEPT !.attributes = @ \cup {name}]

interpolation_function(self, cloud_parameter, z) ==
    IF "_norm_level" \notin self.attributes THEN Raise("AttributeError")
    ELSE Ok(interp1d(shifted(z, self._norm_level), cloud_parameter.values,
                     Len(cloud_parameter.dims)))

\* a Python float object: its value, and whether it is the object np.nan
PyObject(value, is_np_nan) == [value |-> value, is_np_nan |-> is_np_nan]

\* a float literal or the result of arithmetic: never the object np.nan
Literal(value) == PyObject(value, FALSE)

\* `norm_new is not np.nan` compares object identity
is_not_np_nan(norm_new) == ~norm_new.is_np_nan

\* the cloud moves to norm_new if `norm_new is not np.nan`, and else is
\* evaluated at self._norm_level
shift_property(self, cloud_parameter, interpolation_f, z, norm_new) ==
    [cloud_parameter EXCEPT
        !.values = call_interp1d(interpolation_f,
                       shifted(z, IF is_not_np_nan(norm_new) THEN norm_new.value
                                  ELSE self._norm_level))]

\* the doubles shift_property stores in cloud_parameter.values, as rows of
\* bands (a row of one value for a field per level)
shift_property_double(self, cloud_parameter, interpolation_f, z, norm_new) ==
    call_interp1d_double(
        IF interpolation_f.ndim = 1 THEN [interpolation_f EXCEPT !.y = rows(@)]
        ELSE interpolation_f,
        shifted(z, IF is_not_np_nan(norm_new) THEN norm_new.value
                   ELSE self._norm_level))

\* dz_array * per_meter, elementwise over levels and bands
times_dz(dz, per_meter) ==
    [i \in 1..Len(per_meter) |->
        [b \in 1..Len(per_meter[i]) |-> FMul(dz[i], per_meter[i][b])]]

\* field / dz_array, elementwise over levels and bands
over_dz(field, dz) ==
    [i \in 1..Len(field) |-> [b \in 1..Len(field[i]) |-> FDiv(field[i][b], dz[i])]]

scale_optical_thickness(self, dz) ==
    [self EXCEPT
        !.longwave_optical_thickness_due_to_cloud =
            DataArray(times_dz(dz, self._longwave_optical_thickness_per_meter.values),
                      <<"mid_levels", "num_longwave_bands">>, "dimensionless"),
        !.shortwave_optical_thickness_due_to_cloud =
            DataArray(times_dz(dz, self._shortwave_optical_thickness_per_meter.values),
                      <<"mid_levels", "num_shortwave_bands">>, "dimensionless")]

calculate_mass_cloud(cloud_fraction_array, dz, density) ==
    DataArray([i \in 1..Len(cloud_fraction_array) |->
                  FMul(FMul(FMul(cloud_fraction_array[i], density), Rat(1, 1000)), dz[i])],
              <<"mid_levels">>, "kg m^-2")

(***************************************************************************)
(* numpy reductions over the pair (self.<field>, other.<field>), axis=0.   *)
(***************************************************************************)
\* |a - b| <= atol + rtol * |b| with rtol = 1e-05 and atol = 1e-08, evaluated as
\* 1e5 * |a - b| <= 1e-3 + |b|; a difference above (|b| + 1) / 1000 fails it
isclose(a, b) ==
    /\ FLeq(FMul(FAbs(FSub(a, b)), Num(1000)), FAdd(FAbs(b), Num(1)))
    /\ FLeq(FMul(FAbs(FSub(a, b)), Num(100000)), FAdd(FAbs(b), Rat(1, 1000)))

\* np.allclose(a, b): arrays that do not broadcast raise ValueError
allclose(a, b) ==
    IF Len(a) # Len(b) THEN Raise("ValueError")
    ELSE Ok(\A i \in 1..Len(a) : isclose(a[i], b[i]))

np_max(a, b) == [i \in 1..Len(a) |-> FMax(a[i], b[i])]

np_min(a, b) == [i \in 1..Len(a) |-> FMin(a[i], b[i])]

np_sum(a, b) == [i \in 1..Len(a) |-> FAdd(a[i], b[i])]

np_sum2(a, b) == [i \in 1..Len(a) |-> [k \in 1..Len(a[i]) |-> FAdd(a[i][k], b[i][k])]]

np_clip(a, lo, hi) == [i \in 1..Len(a) |-> clip(a[i], lo, hi)]

\* the check of the grids that opens both __add__ methods, then the rest of it
with_compatible_grids(close, rest) ==
    IF close.error # "none" THEN Raise(close.error)
    ELSE IF ~close.value THEN Raise("ValueError")
    ELSE rest

(***************************************************************************)
(* class ClearSky                                                          *)
(***************************************************************************)
ClearSky__init__(z) == Cloud__init__("ClearSky", z, NoKwargs)

ClearSky_update_cloud_profile(self) == self

(***************************************************************************)
(* class PhysicalCloud                                                     *)
(***************************************************************************)
PhysicalCloud__init__(z, cloud_fraction, mass_water, mass_ice, ice_particle_size, droplet_radius) ==
    Cloud__init__("PhysicalCloud", z,
                  [cloud_fraction |-> cloud_fraction,
                   mass_ice |-> mass_ice,
                   mass_water |-> mass_water,
                   ice_particle_size |-> ice_particle_size,
                   droplet_radius |-> droplet_radius])

\* PhysicalCloud(z=self.z, ...) of the five converted fields, in the order the
\* keyword arguments are evaluated
PhysicalCloud_summed(z, converted) ==
    IF FirstError(converted) # "none" THEN Raise(FirstError(converted))
    ELSE PhysicalCloud__init__(z, converted[1].value, converted[3].value,
                               converted[2].value, converted[4].value,
                               converted[5].value)

PhysicalCloud__add__(self, other) ==
    with_compatible_grids(allclose(self.z, other.z),
        PhysicalCloud_summed(self.z,
            <<call_get_p_data_array(
                  ndarray(np_clip(np_max(self.cloud_area_fraction_in_atmosphere_layer.values,
                                         other.cloud_area_fraction_in_atmosphere_layer.values),
                                  Num(0), Num(1)), 1),
                  NoKwargs),
              call_get_p_data_array(
                  ndarray(np_sum(self.mass_content_of_cloud_ice_in_atmosphere_layer.values,
                                 other.mass_content_of_cloud_ice_in_atmosphere_layer.values), 1),
                  NoKwargs),
              call_get_p_data_array(
                  ndarray(np_sum(
                      self.mass_content_of_cloud_liquid_water_in_atmosphere_layer.values,
                      other.mass_content_of_cloud_liquid_water_in_atmosphere_layer.values), 1),
                  NoKwargs),
              call_get_p_data_array(
                  ndarray(np_min(self.cloud_ice_particle_size.values,
                                 other.cloud_ice_particle_size.values), 1),
                  NoKwargs),
              call_get_p_data_array(
                  ndarray(np_min(self.cloud_water_droplet_radius.values,
                                 other.cloud_water_droplet_radius.values), 1),
                  NoKwargs)>>))

PhysicalCloud_update_cloud_profile(self) == self

(***************************************************************************)
(* class DirectInputCloud                                                  *)
(***************************************************************************)
\* field / dz_array: the arithmetic of DataArrays keeps the dims and drops attrs
per_meter(field, dz) == DataArray(over_dz(field.values, dz), field.dims, "")

\* self.<name> = self.interpolation_function(cloud_parameter, z)
set_interpolation(self, name, f) ==
    IF f.error # "none" THEN Raise(f.error) ELSE Ok(SetAttr(self, name, f.value))

\* the assignments of _f, _interpolation_sw and _interpolation_lw
DirectInputCloud_interpolations(self, z) ==
    SetAttr(SetAttr(SetAttr(self,
        "_f", interpolation_function(
                  self, self.cloud_area_fraction_in_atmosphere_layer, z).value),
        "_interpolation_sw", interpolation_function(
                  self, self._shortwave_optical_thickness_per_meter, z).value),
        "_interpolation_lw", interpolation_function(
                  self, self._longwave_optical_thickness_per_meter, z).value)

\* the assignments of the optical thickness per meter and of _norm_level
DirectInputCloud_per_meter(self, dz) ==
    SetAttr(SetAttr(SetAttr(self,
        "_longwave_optical_thickness_per_meter",
            per_meter(self.longwave_optical_thickness_due_to_cloud, dz)),
        "_shortwave_optical_thickness_per_meter",
            per_meter(self.shortwave_optical_thickness_due_to_cloud, dz)),
        "_norm_level", Num(0))

\* the body of DirectInputCloud.__init__ behind super().__init__
DirectInputCloud_body(super, z) ==
    IF super.error # "none" THEN super
    ELSE Ok(DirectInputCloud_interpolations(
                DirectInputCloud_per_meter(super.value, dz_from_z(z)), z))

DirectInputCloud__init__(z, kwargs) ==
    DirectInputCloud_body(Cloud__init__("DirectInputCloud", z, kwargs), z)

\* DirectInputCloud(z=self.z, ...) of the converted fields, in the order the
\* statements of __add__ are evaluated
DirectInputCloud_summed(z, converted) ==
    IF FirstError(converted) # "none" THEN Raise(FirstError(converted))
    ELSE DirectInputCloud__init__(z,
             [cloud_fraction |-> converted[3].value,
              lw_optical_thickness |-> converted[1].value,
              sw_optical_thickness |-> converted[2].value,
              forward_scattering_fraction |-> PyFloat(Num(0)),
              asymmetry_parameter |-> PyFloat(Rat(85, 100)),
              single_scattering_albedo |-> PyFloat(Rat(9, 10))])

DirectInputCloud__add__(self, other) ==
    with_compatible_grids(allclose(self.z, other.z),
        DirectInputCloud_summed(self.z,
            <<call_get_waveband_data_array(
                  ndarray(np_sum2(self.longwave_optical_thickness_due_to_cloud.values,
                                  other.longwave_optical_thickness_due_to_cloud.values), 2),
                  [sw |-> FALSE, numbands |-> 16]),
              call_get_waveband_data_array(
                  ndarray(np_sum2(self.shortwave_optical_thickness_due_to_cloud.values,
                                  other.shortwave_optical_thickness_due_to_cloud.values), 2),
                  [sw |-> TRUE, numbands |-> 14]),
              call_get_p_data_array(
                  ndarray(np_clip(np_max(self.cloud_area_fraction_in_atmosphere_layer.values,
                                         other.cloud_area_fraction_in_atmosphere_layer.values),
                                  Num(0), Num(1)), 1),
                  NoKwargs)>>))

\* self.<name> = self.shift_property(self.<name>, self.<f>, z, norm_new)
shift(self, name, f, z, norm_new) ==
    [self EXCEPT ![name] = shift_property(self, self[name], self[f], z, norm_new)]

DirectInputCloud_update_cloud_profile(self, atm) ==
    scale_optical_thickness(
        shift(shift(shift([self EXCEPT !.z = atm.z],
                  "cloud_area_fraction_in_atmosphere_layer", "_f",
                  atm.z, Literal(Num(0))),
              "_shortwave_optical_thickness_per_meter", "_interpolation_sw",
              atm.z, Literal(Num(0))),
          "_longwave_optical_thickness_per_meter", "_interpolation_lw",
          atm.z, Literal(Num(0))),
        dz_from_z(atm.z))

(***************************************************************************)
(* classes HighCloud and LowCloud                                          *)
(***************************************************************************)
\* np.zeros(z.shape) with cloud_fraction_in_cloud at the levels
\* (z < cloud_top) & (z > cloud_top - depth)
step_profile(z, cloud_top, depth, cloud_fraction_in_cloud) ==
    [i \in 1..Len(z) |->
        IF FLess(z[i], cloud_top) /\ FLess(FSub(cloud_top, depth), z[i])
        THEN cloud_fraction_in_cloud ELSE Num(0)]

\* self._f = self.interpolation_function(
\*     self.cloud_area_fraction_in_atmosphere_layer, z)
set_f(self, z) ==
    set_interpolation(self, "_f",
        interpolation_function(self, self.cloud_area_fraction_in_atmosphere_layer, z))

\* the body of HighCloud.__init__ behind super().__init__
HighCloud_body(super, z, cloud_top, ice_density) ==
    IF super.error # "none" THEN super
    ELSE set_f(SetAttr(SetAttr(super.value, "_ice_density", ice_density),
                       "_norm_level", cloud_top), z)

HighCloud__init__(z, cloud_top, depth, cloud_fraction_in_cloud, ice_density, ice_particle_size) ==
    HighCloud_body(
        Cloud__init__("HighCloud", z,
            [cloud_fraction |->
                 DataArray(step_profile(z, cloud_top, depth, cloud_fraction_in_cloud),
                           <<"mid_levels">>, "dimensionless"),
             mass_ice |->
                 calculate_mass_cloud(
                     step_profile(z, cloud_top, depth, cloud_fraction_in_cloud),
                     dz_from_z(z), ice_density),
             ice_particle_size |-> PyFloat(ice_particle_size)]),
        z, cloud_top, ice_density)

\* convection.get('convective_top_height')[0]: an element read from an ndarray
\* is a new float object; an element of a list is the object stored in it
get_convective_top_height(conv) ==
    IF conv.container = "ndarray" THEN Literal(conv.item.value) ELSE conv.item

\* a variant of HighCloud_mass that takes the layer thickness of the grid the
\* cloud has stored, not of the grid of the atmosphere
HighCloud_mass_stored_grid(self, dz) ==
    [self EXCEPT !.mass_content_of_cloud_ice_in_atmosphere_layer =
        calculate_mass_cloud(self.cloud_area_fraction_in_atmosphere_layer.values,
                             dz_from_z(self.z), self._ice_density)]

\* self.mass_content_of_cloud_ice_in_atmosphere_layer = mass_ice
HighCloud_mass(self, dz) ==
    [self EXCEPT !.mass_content_of_cloud_ice_in_atmosphere_layer =
        calculate_mass_cloud(self.cloud_area_fraction_in_atmosphere_layer.values,
                             dz, self._ice_density)]

HighCloud_update_cloud_profile(self, atm, conv) ==
    HighCloud_mass(
        shift(self, "cloud_area_fraction_in_atmosphere_layer", "_f", atm.z,
              get_convective_top_height(conv)),
        dz_from_z(atm.z))

\* self._norm_level = 0, reached if no statement before it raised
LowCloud_norm_level(r) ==
    IF r.error # "none" THEN r ELSE Ok(SetAttr(r.value, "_norm_level", Num(0)))

\* the body of LowCloud.__init__ behind super().__init__: _f is computed
\* before _norm_level is assigned
LowCloud_body(super, z, water_density) ==
    IF super.error # "none" THEN super
    ELSE LowCloud_norm_level(
             set_f(SetAttr(super.value, "_water_density", water_density), z))

LowCloud__init__(z, cloud_top, depth, cloud_fraction_in_cloud, water_density, droplet_radius) ==
    LowCloud_body(
        Cloud__init__("LowCloud", z,
            [cloud_fraction |->
                 DataArray(step_profile(z, cloud_top, depth, cloud_fraction_in_cloud),
                           <<"mid_levels">>, "dimensionless"),
             mass_water |->
                 calculate_mass_cloud(
                     step_profile(z, cloud_top, depth, cloud_fraction_in_cloud),
                     dz_from_z(z), water_density),
             droplet_radius |-> PyFloat(droplet_radius)]),
        z, water_density)

\* self.mass_content_of_cloud_liquid_water_in_atmosphere_layer = mass
LowCloud_mass(self, dz) ==
    [self EXCEPT !.mass_content_of_cloud_liquid_water_in_atmosphere_layer =
        calculate_mass_cloud(self.cloud_area_fraction_in_atmosphere_layer.values,
                             dz, self._water_density)]

LowCloud_update_cloud_profile(self, atm) ==
    LowCloud_mass(
        shift(self, "cloud_area_fraction_in_atmosphere_layer", "_f", atm.z,
              Literal(Num(0))),
        dz_from_z(atm.z))

\* cloud.update_cloud_profile(atmosphere, convection), dispatched on the class
update_cloud_profile(self, atm, conv) ==
    CASE self.class = "ClearSky" -> ClearSky_update_cloud_profile(self)
      [] self.class = "PhysicalCloud" -> PhysicalCloud_update_cloud_profile(self)
      [] self.class = "DirectInputCloud" -> DirectInputCloud_update_cloud_profile(self, atm)
      [] self.class = "HighCloud" -> HighCloud_update_cloud_profile(self, atm, conv)
      [] self.class = "LowCloud" -> LowCloud_update_cloud_profile(self, atm)

\* the ways a driver passes the convection to update_cloud_profile:
\* update_cloud_profile(atmosphere, convection),
\* update_cloud_profile(atmosphere, convection=convection) and
\* update_cloud_profile(atmosphere)
CallForms == {"positional", "keyword", "omitted"}

\* the binding of the arguments to the parameters of the update_cloud_profile
\* of a class: (self, *args, **kwargs) takes every form,
\* (self, atmosphere, **kwargs) takes no second positional argument, and
\* (self, atmosphere, convection, **kwargs) requires the convection
bind_update_cloud_profile(class, form) ==
    CASE class \in {"ClearSky", "PhysicalCloud"} -> "none"
      [] class \in {"DirectInputCloud", "LowCloud"} ->
            IF form = "positional" THEN "TypeError" ELSE "none"
      [] class = "HighCloud" -> IF form = "omitted" THEN "TypeError" ELSE "none"

\* cloud.update_cloud_profile(...) in one of the forms: the object behind the
\* call, which is unchanged if the call raised
call_update_cloud_profile(self, form, atm, conv) ==
    IF bind_update_cloud_profile(self.class, form) # "none"
    THEN [error |-> bind_update_cloud_profile(self.class, form), value |-> self]
    ELSE Ok(update_cloud_profile(self, atm, conv))

\* self.scale_optical_thickness(dz) called on its own: the object behind the
\* call; reading a per-meter field that was never assigned raises
call_scale_optical_thickness(self, dz) ==
    IF {"_longwave_optical_thickness_per_meter",
        "_shortwave_optical_thickness_per_meter"} \subseteq self.attributes
    THEN Ok(scale_optical_thickness(self, dz))
    ELSE [error |-> "AttributeError", value |-> self]

\* a + b: the __add__ of the class of a; no class defines __radd__
add(a, b) ==
    CASE a.class = "PhysicalCloud" -> PhysicalCloud__add__(a, b)
      [] a.class = "DirectInputCloud" -> DirectInputCloud__add__(a, b)
      [] OTHER -> Raise("TypeError")

(***************************************************************************)
(* class CloudEnsemble.  self.clouds holds references into the heap of     *)
(* cloud objects; _superposition is the result of np.sum(self.clouds): the *)
(* float 0.0 for no member, the one member itself (the same object) for    *)
(* one member, and else a new cloud, the left fold of the members through  *)
(* their addition.                                                         *)
(***************************************************************************)
Superposition(kind, ref, cloud) == [kind |-> kind, ref |-> ref, cloud |-> cloud]

\* the next step of the fold: (a + b) for the sum a so far, if it did not raise
add_next(r, b) == IF r.error # "none" THEN r ELSE add(r.value, b)

RECURSIVE fold(_, _, _)
fold(heap, members, k) ==
    IF k = 1 THEN Ok(heap[members[1]])
    ELSE add_next(fold(heap, members, k - 1), heap[members[k]])

\* the new cloud a fold of several members returns
summed(r) ==
    IF r.error # "none" THEN r ELSE Ok(Superposition("cloud", <<>>, r.value))

\* np.sum(self.clouds)
np_sum_clouds(heap, members) ==
    IF Len(members) = 0 THEN Ok(Superposition("float", <<>>, None))
    ELSE IF Len(members) = 1 THEN Ok(Superposition("member", members, None))
    ELSE summed(fold(heap, members, Len(members)))

\* self._superposition = np.sum(self.clouds)
set_superposition(self, r) ==
    IF r.error # "none" THEN Raise(r.error)
    ELSE Ok([self EXCEPT !._superposition = r.value])

superpose(self, heap) == set_superposition(self, np_sum_clouds(heap, self.clouds))

CloudEnsemble__init__(heap, args) ==
    superpose([clouds |-> args, _superposition |-> Superposition("None", <<>>, None)],
              heap)

\* getattr(self._superposition, name)
CloudEnsemble__getattr__(self, heap, name) ==
    CASE self._superposition.kind = "member" ->
            Ok(heap[self._superposition.ref[1]][name])
      [] self._superposition.kind = "cloud" -> Ok(self._superposition.cloud[name])
      [] OTHER -> Raise("AttributeError")

\* the heap behind a call u of the update of the object heap[i]
store_member(heap, i, u) == [error |-> u.error, value |-> [heap EXCEPT ![i] = u.value]]

\* the next pass of the loop over the members, if no pass before it raised
update_member(r, i, form, atm, conv) ==
    IF r.error # "none" THEN r
    ELSE store_member(r.value, i,
                      call_update_cloud_profile(r.value[i], form, atm, conv))

\* for cloud in self.clouds: cloud.update_cloud_profile(*args, **kwargs); the
\* heap behind the loop, which ends at the first member that raises
RECURSIVE update_members(_, _, _, _, _, _)
update_members(heap, members, k, form, atm, conv) ==
    IF k = 0 THEN Ok(heap)
    ELSE update_member(update_members(heap, members, k - 1, form, atm, conv),
                       members[k], form, atm, conv)

(***************************************************************************)
(* The inputs of the model.                                                *)
(***************************************************************************)
\* the number of levels the conversions assume if they are not told one
DefaultLevels == p_data_array_defaults.numlevels

grid(n, start, step) == [i \in 1..n |-> Num(start + step * (i - 1))]

\* a grid whose layers differ in thickness
uneven(n, start, step) ==
    [i \in 1..n |-> Num(start + step * (i - 1) + (IF i % 2 = 0 THEN step \div 2 ELSE 0))]

Grids(n) == {grid(n, 500, 500), grid(n, 400, 600), uneven(n, 500, 400)}

\* a fraction profile with values above 1 and below 0
profile(n) ==
    [i \in 1..n |-> IF i = 1 THEN Rat(3, 2) ELSE IF i = 2 THEN Rat(-1, 2) ELSE Rat(1, 4)]

\* a profile of one row of numbands values per level
profile2(n, numbands) == [i \in 1..n |-> [b \in 1..numbands |-> Rat(i + b, 4)]]

ConvectiveTops == {Num(1000), Num(1700)}

\* the convective_top_height of the convection scheme: an array holding the
\* height or nan, or a sequence holding the object np.nan
ConvectionStates ==
    {[container |-> "ndarray", item |-> Literal(top)] : top \in ConvectiveTops \cup {NaN}}
    \cup {[container |-> "list", item |-> PyObject(NaN, TRUE)]}

\* scalar arguments; the argument lists are sequences, for their members are
\* values of different kinds
PhysicalCloudScalars ==
    <<[cloud_fraction |-> PyFloat(Rat(3, 10)), mass_water |-> PyFloat(Num(1)),
       mass_ice |-> PyFloat(Num(2)), ice_particle_size |-> PyFloat(Num(20)),
       droplet_radius |-> PyFloat(Num(10))],
      [cloud_fraction |-> PyFloat(Rat(1, 2)), mass_water |-> PyFloat(Num(0)),
       mass_ice |-> PyFloat(Num(3)), ice_particle_size |-> PyFloat(Num(30)),
       droplet_radius |-> PyFloat(Num(5))]>>

\* arrays and tagged fields of the right and of a wrong size, and a string
PhysicalCloudArrays(n) ==
    <<[cloud_fraction |-> ndarray(profile(n), 1),
       mass_water |-> DataArray(ones(n, Rat(1, 2)), <<"mid_levels">>, "kg m^-2"),
       mass_ice |-> ndarray(ones(n, Num(1)), 1), ice_particle_size |-> PyFloat(Num(25)),
       droplet_radius |-> PyFloat(Num(8))],
      [cloud_fraction |-> ndarray(profile(n + 1), 1), mass_water |-> PyFloat(Num(1)),
       mass_ice |-> PyFloat(Num(2)), ice_particle_size |-> PyFloat(Num(20)),
       droplet_radius |-> PyFloat(Num(10))],
      [cloud_fraction |-> PyFloat(Rat(3, 10)), mass_water |-> PyOther("str"),
       mass_ice |-> PyFloat(Num(2)), ice_particle_size |-> PyFloat(Num(20)),
       droplet_radius |-> PyFloat(Num(10))]>>

\* the arrays are enumerated on the small grids
PhysicalCloudArgs(n) ==
    PhysicalCloudScalars \o (IF n <= MaxLevels THEN PhysicalCloudArrays(n) ELSE <<>>)

DirectInputCloudScalars ==
    <<[cloud_fraction |-> PyFloat(Rat(1, 2)), lw_optical_thickness |-> PyFloat(Num(1)),
       sw_optical_thickness |-> PyFloat(Num(2))]>>

\* arrays per level and per level and band; the last has shortwave bands for
\* the longwave field
DirectInputCloudArrays(n) ==
    <<[cloud_fraction |-> ndarray(profile(n), 1),
       lw_optical_thickness |-> ndarray(ones(n, Num(3)), 1),
       sw_optical_thickness |-> ndarray(profile2(n, num_shortwave_bands), 2)],
      [cloud_fraction |-> PyFloat(Rat(1, 2)),
       lw_optical_thickness |-> ndarray(profile2(n, num_shortwave_bands), 2),
       sw_optical_thickness |-> PyFloat(Num(2))]>>

DirectInputCloudArgs(n) ==
    DirectInputCloudScalars \o (IF n <= MaxLevels THEN DirectInputCloudArrays(n) ELSE <<>>)

HighCloudArgs ==
    {[cloud_top |-> Num(1200), depth |-> Num(500), cloud_fraction_in_cloud |-> f,
      ice_density |-> Rat(1, 2), ice_particle_size |-> Num(20)] : f \in {Num(1), Rat(1, 2)}}

LowCloudArgs ==
    {[cloud_top |-> Num(2000), depth |-> Num(1500), cloud_fraction_in_cloud |-> Num(1),
      water_density |-> Rat(1, 2), droplet_radius |-> Num(10)]}

\* the fields read from an ensemble
AttrNames ==
    {"cloud_area_fraction_in_atmosphere_layer",
     "mass_content_of_cloud_ice_in_atmosphere_layer",
     "longwave_optical_thickness_due_to_cloud"}

\* the calls of the conversions
ConversionInputs(n) ==
    <<PyFloat(Rat(1, 2)), PyValue("int", <<>>, Num(2), <<>>, ""),
      ndarray(profile(n), 1), ndarray(profile(n + 1), 1), ndarray(profile(n - 1), 1),
      ndarray(profile2(n, num_shortwave_bands), 2),
      ndarray(profile2(n, num_longwave_bands), 2),
      ndarray(profile2(n + 1, num_shortwave_bands), 2),
      ndarray(profile2(n + 1, num_longwave_bands), 2),
      ndarray(profile2(n, num_shortwave_bands + 1), 2),
      DataArray(profile(n), <<"mid_levels">>, "kg m^-2"),
      DataArray(profile(n + 1), <<"mid_levels">>, "kg m^-2"),
      PyOther("str"), PyOther("list"), None>>

ConversionUnits == {"kg m^-2", "dimensionless", "micrometers"}

(***************************************************************************)
(* The state machine: the operations a driver performs on cloud objects.   *)
(***************************************************************************)
\* the record of an operation: its operands (references into the heap), the
\* attribute name or the inputs it was given, the exception it raised or
\* "none", its result, and the operand as it was before the operation
Outcome(op, error, operands, input, value, before) ==
    [op |-> op, error |-> error, operands |-> operands, input |-> input,
     value |-> value, before |-> before]

numlevels == Len(atmosphere.z)

\* the state behind the construction of the atmosphere and the convection
Start(n, z, conv) ==
    /\ atmosphere = [z |-> z]
    /\ convection = conv
    /\ clouds = <<>>
    /\ history = <<>>
    /\ ensemble = <<>>
    /\ outcome = Outcome("none", "none", <<>>, None, None, None)

Init ==
    \E n \in 2..MaxLevels : \E z \in Grids(n) : \E conv \in ConvectionStates :
        Start(n, z, conv)

\* the atmosphere model moves its levels to different altitudes
StepAtmosphere ==
    /\ \E z \in Grids(numlevels) \ {atmosphere.z} : atmosphere' = [z |-> z]
    /\ UNCHANGED <<convection, clouds, history, ensemble, outcome>>

\* the convection scheme diagnoses a different convective top, or none
StepConvection ==
    /\ \E conv \in ConvectionStates \ {convection} : convection' = conv
    /\ UNCHANGED <<atmosphere, clouds, history, ensemble, outcome>>

\* a constructor call with result r: a new object on the heap unless it raised
Construct(op, r, anchor) ==
    /\ Len(clouds) < MaxClouds
    /\ clouds' = IF r.error = "none" THEN Append(clouds, r.value) ELSE clouds
    /\ history' = IF r.error = "none"
                  THEN Append(history, [anchor |-> anchor, supplied |-> FALSE,
                                        calls |-> 0])
                  ELSE history
    /\ outcome' = Outcome(op, r.error,
                          IF r.error = "none" THEN <<Len(clouds) + 1>> ELSE <<>>,
                          None, r.value, None)
    /\ UNCHANGED <<atmosphere, convection, ensemble>>

NewClearSky == Construct("ClearSky", ClearSky__init__(atmosphere.z), Num(0))

\* PhysicalCloud(z, **a)
ConstructPhysicalCloud(a) ==
    Construct("PhysicalCloud",
              PhysicalCloud__init__(atmosphere.z, a.cloud_fraction, a.mass_water,
                                    a.mass_ice, a.ice_particle_size, a.droplet_radius),
              Num(0))

NewPhysicalCloud ==
    \E k \in DOMAIN PhysicalCloudArgs(numlevels) :
        ConstructPhysicalCloud(PhysicalCloudArgs(numlevels)[k])

NewDirectInputCloud ==
    \E k \in DOMAIN DirectInputCloudArgs(numlevels) :
        Construct("DirectInputCloud",
                  DirectInputCloud__init__(atmosphere.z, DirectInputCloudArgs(numlevels)[k]),
                  Num(0))

NewHighCloud ==
    \E a \in HighCloudArgs :
        Construct("HighCloud",
                  HighCloud__init__(atmosphere.z, a.cloud_top, a.depth,
                                    a.cloud_fraction_in_cloud, a.ice_density,
                                    a.ice_particle_size),
                  a.cloud_top)

NewLowCloud ==
    \E a \in LowCloudArgs :
        Construct("LowCloud",
                  LowCloud__init__(atmosphere.z, a.cloud_top, a.depth,
                                   a.cloud_fraction_in_cloud, a.water_density,
                                   a.droplet_radius),
                  Num(0))

\* the outcome of clouds[i] + clouds[j]
Added(r, i, j) ==
    outcome' = Outcome("add", r.error, <<i, j>>, None, r.value, None)

Add ==
    /\ \E i \in 1..Len(clouds) : \E j \in 1..Len(clouds) :
           Added(add(clouds[i], clouds[j]), i, j)
    /\ UNCHANGED <<atmosphere, convection, clouds, history, ensemble>>

\* the member lists of an ensemble: any clouds of the heap in any order
MemberLists ==
    UNION {[1..k -> 1..Len(clouds)] : k \in 0..MaxClouds}

\* the outcome of CloudEnsemble(*args): the new object takes the place of the
\* ensemble built before; a call that raises returns no object, and the
\* ensemble built before stays as it is
Assembled(r, args) ==
    /\ ensemble' = IF r.error = "none" THEN <<r.value>> ELSE ensemble
    /\ outcome' = Outcome("CloudEnsemble", r.error, args, None,
                          IF r.error = "none" THEN r.value ELSE None, None)

NewCloudEnsemble ==
    /\ \E args \in MemberLists : Assembled(CloudEnsemble__init__(clouds, args), args)
    /\ UNCHANGED <<atmosphere, convection, clouds, history>>

\* the outcome of ensemble.<name>
Got(r, name) ==
    outcome' = Outcome("getattr", r.error, ensemble[1].clouds, name, r.value, None)

GetAttr ==
    /\ ensemble # <<>>
    /\ \E name \in AttrNames : Got(CloudEnsemble__getattr__(ensemble[1], clouds, name), name)
    /\ UNCHANGED <<atmosphere, convection, clouds, history, ensemble>>

\* the anchor an update of a HighCloud supplies, if the convective top is a number
Supplied(h, class, norm_new) ==
    IF class = "HighCloud" /\ ~IsNaN(norm_new.value)
    THEN [h EXCEPT !.anchor = norm_new.value, !.supplied = TRUE]
    ELSE h

\* the record of clouds[i].update_cloud_profile(...) with the result r; the
\* inputs are the atmosphere and the convection, and whether the convection
\* was passed
Updated(r, i, form) ==
    /\ clouds' = [clouds EXCEPT ![i] = r.value]
    /\ history' = [history EXCEPT ![i] =
                      IF r.error = "none"
                      THEN Supplied(@, clouds[i].class,
                                    get_convective_top_height(convection))
                      ELSE @]
    /\ outcome' = Outcome("update", r.error, <<i>>,
                          [atmosphere |-> atmosphere, convection |-> convection,
                           passed |-> form # "omitted"],
                          None, clouds[i])

\* clouds[i].update_cloud_profile(atmosphere, convection), in any of the forms
UpdateCloud ==
    /\ \E i \in 1..Len(clouds) : \E form \in CallForms :
           Updated(call_update_cloud_profile(clouds[i], form, atmosphere, convection),
                   i, form)
    /\ UNCHANGED <<atmosphere, convection, ensemble>>

\* the record of clouds[i].shift_property(clouds[i].<name>, clouds[i].<f>,
\* atmosphere.z, norm_new): the values of the field are replaced in place, and
\* the field is returned.  The record holds the field of the state and the
\* doubles the code stores in it
Shifted(self, i, name, f, norm_new) ==
    /\ clouds' = [clouds EXCEPT ![i] = self]
    /\ history' = [history EXCEPT ![i].calls = @ + 1]
    /\ outcome' = Outcome("shift_property", "none", <<i>>,
                          [atmosphere |-> atmosphere, convection |-> convection,
                           name |-> name, f |-> f, norm_new |-> norm_new],
                          [field |-> self[name],
                           doubles |-> shift_property_double(
                                           clouds[i], clouds[i][name], clouds[i][f],
                                           atmosphere.z, norm_new)],
                          clouds[i])

\* the fields a cloud keeps an interpolation function of
ShiftTargets ==
    {<<"cloud_area_fraction_in_atmosphere_layer", "_f">>,
     <<"_shortwave_optical_thickness_per_meter", "_interpolation_sw">>,
     <<"_longwave_optical_thickness_per_meter", "_interpolation_lw">>}

\* shift_property called on its own, on a field of the cloud and the
\* interpolation function of that field, with the level 0 or the convective top
ShiftProperty ==
    /\ \E i \in 1..Len(clouds) : \E t \in ShiftTargets :
       \E norm_new \in {Literal(Num(0)), get_convective_top_height(convection)} :
           /\ t[2] \in clouds[i].attributes
           /\ history[i].calls < MaxCalls
           /\ Shifted(shift(clouds[i], t[1], t[2], atmosphere.z, norm_new),
                      i, t[1], t[2], norm_new)
    /\ UNCHANGED <<atmosphere, convection, ensemble>>

\* the record of clouds[i].scale_optical_thickness(dz) with the result r
Scaled(r, i) ==
    /\ clouds' = [clouds EXCEPT ![i] = r.value]
    /\ history' = [history EXCEPT ![i].calls = @ + 1]
    /\ outcome' = Outcome("scale_optical_thickness", r.error, <<i>>,
                          [atmosphere |-> atmosphere], None, clouds[i])

\* scale_optical_thickness called on its own, with the layers of the atmosphere
ScaleOpticalThickness ==
    /\ \E i \in 1..Len(clouds) :
           /\ history[i].calls < MaxCalls
           /\ Scaled(call_scale_optical_thickness(clouds[i], dz_from_z(atmosphere.z)), i)
    /\ UNCHANGED <<atmosphere, convection, ensemble>>

\* the record of ensemble.update_cloud_profile(...): the superposition is
\* replaced unless superpose raised
Superposed(r, heap) ==
    /\ clouds' = heap
    /\ ensemble' = IF r.error = "none" THEN <<r.value>> ELSE ensemble
    /\ outcome' = Outcome("CloudEnsemble.update_cloud_profile", r.error,
                          ensemble[1].clouds,
                          [atmosphere |-> atmosphere, convection |-> convection],
                          None, None)

\* the loop over the members with the result u, then superpose unless a
\* member raised
UpdatedEnsemble(u) ==
    IF u.error # "none"
    THEN Superposed([error |-> u.error, value |-> ensemble[1]], u.value)
    ELSE Superposed(superpose(ensemble[1], u.value), u.value)

\* the member at position k was reached by the loop: no member before it, nor
\* itself, raised
Reached(members, k, form) ==
    \A j \in 1..k : bind_update_cloud_profile(clouds[members[j]].class, form) = "none"

\* ensemble.update_cloud_profile(atmosphere, convection), in any of the forms
UpdateEnsemble ==
    /\ ensemble # <<>>
    /\ \E form \in CallForms :
        /\ UpdatedEnsemble(update_members(clouds, ensemble[1].clouds,
                                          Len(ensemble[1].clouds), form,
                                          atmosphere, convection))
        /\ history' = [i \in DOMAIN history |->
                          IF \E k \in DOMAIN ensemble[1].clouds :
                                 /\ ensemble[1].clouds[k] = i
                                 /\ Reached(ensemble[1].clouds, k, form)
                          THEN Supplied(history[i], clouds[i].class,
                                        get_convective_top_height(convection))
                          ELSE history[i]]
    /\ UNCHANGED <<atmosphere, convection>>

\* the record of ensemble.superpose() with the result r
Resuperposed(r) ==
    /\ ensemble' = IF r.error = "none" THEN <<r.value>> ELSE ensemble
    /\ outcome' = Outcome("superpose", r.error, ensemble[1].clouds, None, None, None)

\* superpose called on its own
Superpose ==
    /\ ensemble # <<>>
    /\ Resuperposed(superpose(ensemble[1], clouds))
    /\ UNCHANGED <<atmosphere, convection, clouds, history>>

\* the life of one cloud: constructed once, then updated step by step
Next ==
    \/ StepAtmosphere
    \/ StepConvection
    \/ (clouds = <<>> /\ NewClearSky)
    \/ (clouds = <<>> /\ NewPhysicalCloud)
    \/ (clouds = <<>> /\ NewDirectInputCloud)
    \/ (clouds = <<>> /\ NewHighCloud)
    \/ (clouds = <<>> /\ NewLowCloud)
    \/ UpdateCloud

Spec == Init /\ [][Next]_vars

\* clouds of every class on one grid, added and combined in ensembles
InitSum ==
    \E n \in 2..MaxLevels :
        Start(n, grid(n, 500, 500), [container |-> "ndarray", item |-> Literal(NaN)])

NextSum ==
    \/ NewClearSky
    \/ NewPhysicalCloud
    \/ NewDirectInputCloud
    \/ NewHighCloud
    \/ NewLowCloud
    \/ Add
    \/ NewCloudEnsemble
    \/ GetAttr

SpecSum == InitSum /\ [][NextSum]_vars

\* ensembles on the grid of DefaultLevels levels
InitDefault ==
    Start(DefaultLevels, grid(DefaultLevels, 500, 500),
          [container |-> "ndarray", item |-> Literal(NaN)])

NextDefault ==
    \/ NewClearSky
    \/ NewPhysicalCloud
    \/ NewDirectInputCloud
    \/ NewCloudEnsemble

SpecDefault == InitDefault /\ [][NextDefault]_vars

\* an ensemble of a PhysicalCloud and a HighCloud on the grid of DefaultLevels
\* levels, updated as a whole and member by member
InitEnsemble ==
    \E top \in ConvectiveTops :
        Start(DefaultLevels, grid(DefaultLevels, 500, 500),
              [container |-> "ndarray", item |-> Literal(top)])

NextEnsemble ==
    \/ (clouds = <<>> /\ NewPhysicalCloud)
    \/ (Len(clouds) = 1 /\ NewHighCloud)
    \/ (ensemble = <<>> /\ Len(clouds) = MaxClouds /\ NewCloudEnsemble)
    \/ (ensemble # <<>> /\ UpdateCloud)
    \/ UpdateEnsemble
    \/ Superpose

SpecEnsemble == InitEnsemble /\ [][NextEnsemble]_vars

\* the helper methods of a cloud called on their own, on the grids the
\* atmosphere moves to, at most MaxCalls times, with a convective top at 1000
\* or the object np.nan for none
InitMethods ==
    \E z \in Grids(MaxLevels) : \E conv \in ConvectionStates :
        /\ conv.item.is_np_nan \/ conv.item.value = Num(1000)
        /\ Start(MaxLevels, z, conv)

NextMethods ==
    \/ StepAtmosphere
    \/ (clouds = <<>> /\ NewDirectInputCloud)
    \/ (clouds = <<>> /\ NewHighCloud)
    \/ ShiftProperty
    \/ ScaleOpticalThickness

SpecMethods == InitMethods /\ [][NextMethods]_vars

\* the conversions applied to inputs of every kind
Converted(op, r, values, kwargs) ==
    /\ outcome' = Outcome(op, r.error, <<>>, [values |-> values, kwargs |-> kwargs],
                          r.value, None)
    /\ UNCHANGED <<atmosphere, convection, clouds, history, ensemble>>

\* get_p_data_array(values, units=units, numlevels=numlevels)
ConvertedP(values, units) ==
    Converted("get_p_data_array", get_p_data_array(values, units, numlevels),
              values, [units |-> units, numlevels |-> numlevels])

ConvertP ==
    \E k \in DOMAIN ConversionInputs(numlevels) : \E units \in ConversionUnits :
        ConvertedP(ConversionInputs(numlevels)[k], units)

\* get_waveband_data_array(values, numlevels=numlevels, sw=sw)
ConvertedWaveband(values, sw) ==
    Converted("get_waveband_data_array",
              get_waveband_data_array(values, waveband_defaults.units, numlevels, sw),
              values, [numlevels |-> numlevels, sw |-> sw])

ConvertWaveband ==
    \E k \in DOMAIN ConversionInputs(numlevels) : \E sw \in BOOLEAN :
        ConvertedWaveband(ConversionInputs(numlevels)[k], sw)

NextConvert == ConvertP \/ ConvertWaveband

SpecConvert == Init /\ [][NextConvert]_vars

(***************************************************************************)
(* The claims about the program, stated over the record of the last        *)
(* operation.                                                              *)
(***************************************************************************)
\* the operands of the last operation
Operand(k) == clouds[outcome.operands[k]]

\* the sum over the levels of band b of a per-level-per-band field
RECURSIVE column_total(_, _, _)
column_total(values, b, k) ==
    IF k = 0 THEN Num(0) ELSE FAdd(column_total(values, b, k - 1), values[k][b])

\* C1: for any two PhysicalClouds a and b on the same grid, of any number of
\* levels, a + b succeeds, and the sum has the clamped maximum of the cloud
\* fractions, the sums of the ice and water masses and the minima of the ice
\* particle sizes and the droplet radii
C1_PhysicalCloudSum ==
    (/\ outcome.op = "add"
     /\ Operand(1).class = "PhysicalCloud"
     /\ Operand(2).class = "PhysicalCloud")
    => /\ outcome.error = "none"
       /\ outcome.value.cloud_area_fraction_in_atmosphere_layer.values =
              np_clip(np_max(Operand(1).cloud_area_fraction_in_atmosphere_layer.values,
                             Operand(2).cloud_area_fraction_in_atmosphere_layer.values),
                      Num(0), Num(1))
       /\ outcome.value.mass_content_of_cloud_ice_in_atmosphere_layer.values =
              np_sum(Operand(1).mass_content_of_cloud_ice_in_atmosphere_layer.values,
                     Operand(2).mass_content_of_cloud_ice_in_atmosphere_layer.values)
       /\ outcome.value.mass_content_of_cloud_liquid_water_in_atmosphere_layer.values =
              np_sum(Operand(1).mass_content_of_cloud_liquid_water_in_atmosphere_layer.values,
                     Operand(2).mass_content_of_cloud_liquid_water_in_atmosphere_layer.values)
       /\ outcome.value.cloud_ice_particle_size.values =
              np_min(Operand(1).cloud_ice_particle_size.values,
                     Operand(2).cloud_ice_particle_size.values)
       /\ outcome.value.cloud_water_droplet_radius.values =
              np_min(Operand(1).cloud_water_droplet_radius.values,
                     Operand(2).cloud_water_droplet_radius.values)

\* C2: for any two DirectInputClouds a and b on the same grid, a + b succeeds
\* and is a DirectInputCloud with the sums of the longwave and shortwave
\* optical thickness, the clamped maximum of the cloud fractions and the
\* defaults 0, 0.85 and 0.9 of the scattering parameters
C2_DirectInputCloudSum ==
    (/\ outcome.op = "add"
     /\ Operand(1).class = "DirectInputCloud"
     /\ Operand(2).class = "DirectInputCloud")
    => /\ outcome.error = "none"
       /\ outcome.value.class = "DirectInputCloud"
       /\ outcome.value.longwave_optical_thickness_due_to_cloud.values =
              np_sum2(Operand(1).longwave_optical_thickness_due_to_cloud.values,
                      Operand(2).longwave_optical_thickness_due_to_cloud.values)
       /\ outcome.value.shortwave_optical_thickness_due_to_cloud.values =
              np_sum2(Operand(1).shortwave_optical_thickness_due_to_cloud.values,
                      Operand(2).shortwave_optical_thickness_due_to_cloud.values)
       /\ outcome.value.cloud_area_fraction_in_atmosphere_layer.values =
              np_clip(np_max(Operand(1).cloud_area_fraction_in_atmosphere_layer.values,
                             Operand(2).cloud_area_fraction_in_atmosphere_layer.values),
                      Num(0), Num(1))
       /\ outcome.value.cloud_forward_scattering_fraction.values =
              ones2(numlevels, num_shortwave_bands, Num(0))
       /\ outcome.value.cloud_asymmetry_parameter.values =
              ones2(numlevels, num_shortwave_bands, Rat(85, 100))
       /\ outcome.value.single_scattering_albedo_due_to_cloud.values =
              ones2(numlevels, num_shortwave_bands, Rat(9, 10))

\* C3: the construction of a LowCloud on any grid completes without error,
\* with anchor 0, the in-cloud fraction at the levels inside the cloud and 0
\* elsewhere, and the water mass fraction x water_density x 1e-3 x dz; an
\* update on the unchanged grid leaves every field as it was
C3_LowCloudLifecycle ==
    /\ outcome.op = "LowCloud"
       => /\ outcome.error = "none"
          /\ outcome.value._norm_level = Num(0)
          /\ \E a \in LowCloudArgs :
                /\ outcome.value.cloud_area_fraction_in_atmosphere_layer.values =
                       step_profile(outcome.value.z, a.cloud_top, a.depth,
                                    a.cloud_fraction_in_cloud)
                /\ outcome.value.mass_content_of_cloud_liquid_water_in_atmosphere_layer
                       = calculate_mass_cloud(
                             step_profile(outcome.value.z, a.cloud_top, a.depth,
                                          a.cloud_fraction_in_cloud),
                             dz_from_z(outcome.value.z), a.water_density)
    /\ (/\ outcome.op = "update"
        /\ outcome.before.class = "LowCloud"
        /\ outcome.input.atmosphere.z = outcome.before.z)
       => Operand(1) = outcome.before

\* C4: an update of a HighCloud while the convective_top_height array holds
\* not-a-number raises no error, evaluates the cloud fraction on the new grid
\* at the stored anchor, and leaves no not-a-number in the cloud fraction or
\* the ice mass
C4_UnavailableTop ==
    (/\ outcome.op = "update"
     /\ outcome.before.class = "HighCloud"
     /\ outcome.input.passed
     /\ outcome.input.convection.container = "ndarray"
     /\ IsNaN(outcome.input.convection.item.value))
    => /\ outcome.error = "none"
       /\ Operand(1).cloud_area_fraction_in_atmosphere_layer.values =
              call_interp1d(outcome.before._f,
                            shifted(outcome.input.atmosphere.z, outcome.before._norm_level))
       /\ \A i \in 1..Len(outcome.input.atmosphere.z) :
              /\ ~IsNaN(Operand(1).cloud_area_fraction_in_atmosphere_layer.values[i])
              /\ ~IsNaN(Operand(1).mass_content_of_cloud_ice_in_atmosphere_layer.values[i])

\* C5: an update of a HighCloud with an unavailable convective top, behind an
\* update that supplied the convective top n1, evaluates the cloud fraction
\* at n1, the anchor of the most recent update that supplied one
C5_LastUsedAnchor ==
    (/\ outcome.op = "update"
     /\ outcome.before.class = "HighCloud"
     /\ outcome.input.passed
     /\ IsNaN(outcome.input.convection.item.value)
     /\ history[outcome.operands[1]].supplied)
    => Operand(1).cloud_area_fraction_in_atmosphere_layer.values =
           call_interp1d(outcome.before._f,
                         shifted(outcome.input.atmosphere.z,
                                 history[outcome.operands[1]].anchor))

\* C6: for a DirectInputCloud and every band, the sum over the levels of the
\* optical thickness behind an update onto a grid with different layer
\* thicknesses equals the sum before the update, within floating-point
\* tolerance
C6_ColumnConserved ==
    (/\ outcome.op = "update"
     /\ outcome.before.class = "DirectInputCloud"
     /\ dz_from_z(outcome.input.atmosphere.z) # dz_from_z(outcome.before.z))
    => /\ \A b \in 1..num_longwave_bands :
              isclose(column_total(Operand(1).longwave_optical_thickness_due_to_cloud.values,
                                   b, Len(Operand(1).z)),
                      column_total(outcome.before.longwave_optical_thickness_due_to_cloud.values,
                                   b, Len(outcome.before.z)))
       /\ \A b \in 1..num_shortwave_bands :
              isclose(column_total(Operand(1).shortwave_optical_thickness_due_to_cloud.values,
                                   b, Len(Operand(1).z)),
                      column_total(outcome.before.shortwave_optical_thickness_due_to_cloud.values,
                                   b, Len(outcome.before.z)))

\* the shapes a conversion to numbands bands accepts of an array
Matches(op, shape, kwargs) ==
    IF op = "get_p_data_array" THEN shape = <<kwargs.numlevels>>
    ELSE \/ shape = <<kwargs.numlevels>>
         \/ shape = <<kwargs.numlevels,
                      IF kwargs.sw THEN num_shortwave_bands ELSE num_longwave_bands>>

\* C7: both conversions raise ValueError for an array whose shape does not
\* match numlevels (or numlevels x numbands), and TypeError for every input
\* that is not a scalar, an array or a tagged field
C7_ConversionErrors ==
    outcome.op \in {"get_p_data_array", "get_waveband_data_array"}
    => /\ (/\ outcome.input.values.type = "ndarray"
           /\ ~Matches(outcome.op, outcome.input.values.shape, outcome.input.kwargs))
          => outcome.error = "ValueError"
       /\ outcome.input.values.type \notin {"int", "float", "ndarray", "DataArray"}
          => outcome.error = "TypeError"

\* the classes of the members of the ensemble of the last operation
MemberClasses == {Operand(k).class : k \in 1..Len(outcome.operands)}

\* C8: the construction of a CloudEnsemble whose members mix a PhysicalCloud
\* and a DirectInputCloud on the same grid, in either order, fails with an
\* error and produces no superposition
C8_MixedEnsembleFails ==
    (/\ outcome.op = "CloudEnsemble"
     /\ {"PhysicalCloud", "DirectInputCloud"} \subseteq MemberClasses)
    => /\ outcome.error # "none"
       /\ outcome.value = None

\* the superposed fields of two ensembles are equal
SameFields(e1, e2) ==
    \A name \in AttrNames :
        CloudEnsemble__getattr__(e1, clouds, name) = CloudEnsemble__getattr__(e2, clouds, name)

\* C9: the outcome of the superposition, its fields or its failure, is the
\* same for the member list and for the member list in the opposite order
C9_OrderIndependent ==
    outcome.op = "CloudEnsemble"
    => /\ (outcome.error = "none")
          <=> (CloudEnsemble__init__(clouds, Reverse(outcome.operands)).error = "none")
       /\ outcome.error = "none"
          => SameFields(ensemble[1],
                        CloudEnsemble__init__(clouds, Reverse(outcome.operands)).value)

\* C10: a CloudEnsemble of any positive number of clouds of the provided
\* variants HighCloud and LowCloud, as in the docstring of the class, is
\* constructed without error, and reading a field of it gives the field of
\* the superposition
C10_EnsembleOfVariants ==
    /\ (/\ outcome.op = "CloudEnsemble"
        /\ Len(outcome.operands) > 0
        /\ MemberClasses \subseteq {"HighCloud", "LowCloud"})
       => outcome.error = "none"
    /\ (/\ outcome.op = "getattr"
        /\ Len(outcome.operands) > 0
        /\ MemberClasses \subseteq {"HighCloud", "LowCloud"})
       => /\ outcome.error = "none"
          /\ outcome.value.type = "DataArray"

\* C11: in every state behind the construction of a CloudEnsemble, whatever
\* updates of the ensemble and of its members followed, the cached
\* superposition is the left fold of the addition over the members as they
\* are now
C11_CachedSuperposition ==
    ensemble # <<>>
    => /\ superpose(ensemble[1], clouds).error = "none"
       /\ superpose(ensemble[1], clouds).value = ensemble[1]

\* every field of a cloud carries its unit tag
HasUnits(cloud) ==
    /\ cloud.cloud_area_fraction_in_atmosphere_layer.units = "dimensionless"
    /\ cloud.mass_content_of_cloud_ice_in_atmosphere_layer.units = "kg m^-2"
    /\ cloud.mass_content_of_cloud_liquid_water_in_atmosphere_layer.units = "kg m^-2"
    /\ cloud.cloud_ice_particle_size.units = "micrometers"
    /\ cloud.cloud_water_droplet_radius.units = "micrometers"
    /\ cloud.longwave_optical_thickness_due_to_cloud.units = "dimensionless"
    /\ cloud.shortwave_optical_thickness_due_to_cloud.units = "dimensionless"
    /\ cloud.cloud_forward_scattering_fraction.units = "dimensionless"
    /\ cloud.cloud_asymmetry_parameter.units = "dimensionless"
    /\ cloud.single_scattering_albedo_due_to_cloud.units = "dimensionless"

\* C12: every cloud object, constructed from scalars or arrays, updated, or
\* the result of an addition such as the superposition of an ensemble,
\* carries the fixed unit tag on each of its fields
C12_UnitTags ==
    /\ \A i \in DOMAIN clouds : HasUnits(clouds[i])
    /\ (outcome.op = "add" /\ outcome.error = "none") => HasUnits(outcome.value)
    /\ (ensemble # <<>> /\ ensemble[1]._superposition.kind = "cloud")
       => HasUnits(ensemble[1]._superposition.cloud)

\* fraction x density x 10^-3 x layer thickness, level by level
MassFormula(fraction, density, dz) ==
    [i \in 1..Len(fraction) |->
        FMul(FMul(FMul(fraction[i], density), Rat(1, 1000)), dz[i])]

\* C13: a HighCloud has, behind its construction, the in-cloud fraction at
\* the levels with cloud_top - depth < z < cloud_top and 0 elsewhere, and
\* behind its construction and every update the ice mass fraction x
\* ice_density x 10^-3 x layer thickness of the grid of that step at every
\* level, which is zero where the fraction is zero
C13_HighCloudMass ==
    /\ (outcome.op = "HighCloud" /\ outcome.error = "none")
       => \E a \in HighCloudArgs :
             /\ \A i \in 1..Len(outcome.value.z) :
                    outcome.value.cloud_area_fraction_in_atmosphere_layer.values[i] =
                        (IF /\ FLess(FSub(a.cloud_top, a.depth), outcome.value.z[i])
                            /\ FLess(outcome.value.z[i], a.cloud_top)
                         THEN a.cloud_fraction_in_cloud ELSE Num(0))
             /\ outcome.value.mass_content_of_cloud_ice_in_atmosphere_layer.values =
                    MassFormula(outcome.value.cloud_area_fraction_in_atmosphere_layer.values,
                                a.ice_density, dz_from_z(outcome.value.z))
    /\ (outcome.op \in {"HighCloud", "update"} /\ outcome.error = "none"
        /\ Operand(1).class = "HighCloud")
       => /\ Operand(1).mass_content_of_cloud_ice_in_atmosphere_layer.values =
                 MassFormula(Operand(1).cloud_area_fraction_in_atmosphere_layer.values,
                             Operand(1)._ice_density,
                             dz_from_z(IF outcome.op = "update"
                                       THEN outcome.input.atmosphere.z ELSE Operand(1).z))
          /\ \A i \in 1..Len(Operand(1).z) :
                 Operand(1).cloud_area_fraction_in_atmosphere_layer.values[i] = Num(0)
                 => Operand(1).mass_content_of_cloud_ice_in_atmosphere_layer.values[i]
                        = Num(0)

\* a HighCloud updated onto a grid with other layers than the grid of its
\* construction, with an available convective top, has cloud at some level
C13_Witness ==
    /\ outcome.op = "update"
    /\ outcome.error = "none"
    /\ Operand(1).class = "HighCloud"
    /\ dz_from_z(outcome.input.atmosphere.z) # dz_from_z(Operand(1).z)
    /\ ~IsNaN(outcome.input.convection.item.value)
    /\ \E i \in 1..Len(Operand(1).z) :
           FLess(Num(0), Operand(1).mass_content_of_cloud_ice_in_atmosphere_layer.values[i])

\* the interpolation function the last call of shift_property was given
FunctionOfShift == Operand(1)[outcome.input.f]

\* the level the last call of shift_property evaluated the function at:
\* norm_new, unless it is the object np.nan, and else the stored anchor
AnchorOfShift ==
    IF outcome.input.norm_new.is_np_nan THEN Operand(1)._norm_level
    ELSE outcome.input.norm_new.value

\* the last operation is a call of shift_property with the grid and the
\* anchor that the interpolation function was built from
SameGridAndAnchor ==
    /\ outcome.op = "shift_property"
    /\ shifted(outcome.input.atmosphere.z, AnchorOfShift) = FunctionOfShift.x

\* the samples of that function as the doubles the code holds, as rows of
\* bands
SamplesOfShift ==
    [i \in 1..Len(FunctionOfShift.y) |->
        IF FunctionOfShift.ndim = 1 THEN <<double_of(FunctionOfShift.y[i])>>
        ELSE [k \in 1..Len(FunctionOfShift.y[i]) |-> double_of(FunctionOfShift.y[i][k])]]

\* the sample next to the sample i that the value at the sample i is
\* interpolated with
NeighbourOf(i) == IF i = 1 THEN 2 ELSE i - 1

\* the one of two doubles that is larger in magnitude
Larger(a, b) == IF a.s = 0 THEN b ELSE IF b.s = 0 THEN a ELSE IF a.e < b.e THEN b ELSE a

\* |a - b| in units of 2^e, for doubles a and b written in units of 2^e
Distance(a, b, e) ==
    IF a.s * b.s < 0 THEN big_add(big_shl(a.m, a.e - e), big_shl(b.m, b.e - e))
    ELSE IF big_less(big_shl(a.m, a.e - e), big_shl(b.m, b.e - e))
    THEN big_sub(big_shl(b.m, b.e - e), big_shl(a.m, a.e - e))
    ELSE big_sub(big_shl(a.m, a.e - e), big_shl(b.m, b.e - e))

\* |a - b| <= n * 2^(c.e), compared in units of 2^e
WithinAt(a, b, n, c, e) ==
    /\ ~a.nan
    /\ ~b.nan
    /\ ~big_less(big_shl(big(n), c.e - e), Distance(a, b, e))

\* the doubles a and b differ by at most n units in the last place of c
WithinUlps(a, b, n, c) == WithinAt(a, b, n, c, Lower(Lower(a.e, b.e), c.e))

\* C14 as it is worded: shift_property with the grid and the anchor that the
\* interpolation function was built from stores the very doubles the
\* function was built from, at the first such call and at every later one
C14_ReturnsOriginal ==
    SameGridAndAnchor => outcome.value.doubles = SamplesOfShift

\* C14: shift_property with the grid and the anchor that the interpolation
\* function was built from returns the field of the cloud, and every value it
\* stores lies within 8 units in the last place of the larger of the two
\* samples it is interpolated between, at the first such call and at every
\* later one
C14_WithinRounding ==
    SameGridAndAnchor
    => /\ Operand(1)[outcome.input.name] = outcome.value.field
       /\ \A i \in 1..Len(SamplesOfShift) : \A k \in 1..Len(SamplesOfShift[i]) :
              WithinUlps(outcome.value.doubles[i][k], SamplesOfShift[i][k], 8,
                         Larger(SamplesOfShift[i][k],
                                SamplesOfShift[NeighbourOf(i)][k]))

\* a second call with the grid and the anchor of the interpolation function,
\* after a call that had moved the field to other values, that stores a
\* double next to the sample and not the sample
C14_Witness ==
    /\ SameGridAndAnchor
    /\ history[outcome.operands[1]].calls = MaxCalls
    /\ outcome.before[outcome.input.name].values # FunctionOfShift.y
    /\ outcome.value.doubles # SamplesOfShift

\* C15: after an update of a DirectInputCloud, a HighCloud or a LowCloud the
\* grid stored in the cloud is the grid of the atmosphere it was updated with
C15_StoredGrid ==
    ( /\ outcome.op = "update"
      /\ outcome.error = "none"
      /\ Operand(1).class \in {"DirectInputCloud", "HighCloud", "LowCloud"} )
    => Operand(1).z = outcome.input.atmosphere.z

\* C16: a HighCloud constructed with an in-cloud fraction between 0 and 1 has,
\* after construction and after every update with an available convective
\* top, a fraction between 0 and 1 and an ice mass of at least 0 at every level
C16_FractionInRange ==
    ( /\ outcome.op \in {"HighCloud", "update"}
      /\ outcome.error = "none"
      /\ Operand(1).class = "HighCloud"
      /\ outcome.op = "update"
         => /\ ~get_convective_top_height(outcome.input.convection).is_np_nan
            /\ ~IsNaN(get_convective_top_height(outcome.input.convection).value) )
    => \A i \in 1..Len(Operand(1).z) :
          /\ FLeq(Num(0), Operand(1).cloud_area_fraction_in_atmosphere_layer.values[i])
          /\ FLeq(Operand(1).cloud_area_fraction_in_atmosphere_layer.values[i], Num(1))
          /\ FLeq(Num(0), Operand(1).mass_content_of_cloud_ice_in_atmosphere_layer.values[i])

====
